---- MODULE Spec2Model ----
(***************************************************************************)
(* Model of the sleepy KNX IoT end node of EXAMPLE/knx_iot_example_dev.c   *)
(* and EXAMPLE/knx_iot_sleepy_main.c: the reset and programming-mode state *)
(* machines, their LED tasklets, and the sleep path of the main loop.      *)
(*                                                                         *)
(* Time is kept relative to the present: a queued tasklet stores the       *)
(* milliseconds left until it is due (due time - TIME_ReadAbsoluteTime()), *)
(* and g_time_of_last_wake is stored as the time elapsed since it was      *)
(* written, saturated at SED_MIN_AWAKE_TIME (the only value it is compared *)
(* with).  The handlers are operators on a record of the device's state,   *)
(* so that a handler is the composition of the calls it makes.             *)
(***************************************************************************)
EXTENDS Integers, Sequences, FiniteSets, TLC

VARIABLES
    pc,                  \* position of main(): join loop, then the poll loop
    joinCooldownTimer,   \* main(): u32_t joinCooldownTimer
    halt,                \* "run", "reset" (BSP_SystemReset) or "fault"
    programming_mode,    \* device->pm of the stack
    rxOnWhenIdle,        \* link mode last given to otThreadSetLinkMode
    led,                 \* pin PROGRAMMING_MODE_INDICATOR as DVBD_Sense reads it
    tasklets,            \* the three ca_tasklet objects
    g_reset_state,       \* enum reset_button_state g_reset_state
    state_snapshot,      \* static of reset_hold_cb
    count,               \* static of reset_done_feedback
    reset_button,        \* callbacks and thresholds registered for the reset button
    g_LED_1,             \* the value of data point LED_1
    lsab_led,            \* the level of the LSAB LED's pin (0 until it is written)
    pins,                \* the LED/button of the board given to each use
    installed,           \* what hardware_init() has initialised and registered
    group_object_table,  \* the urls of the entries of the stack's group object table
    since_last_wake,     \* TIME_ReadAbsoluteTime() - g_time_of_last_wake
    role,                \* otThreadGetDeviceRole(OT_INSTANCE)
    credentials,         \* joiner credentials still stored
    null_word,           \* what *(enum reset_button_state *)NULL reads, once read
    events,              \* button events and requests delivered so far
    trace                \* calls made by the last step, in order

vars == <<pc, joinCooldownTimer, halt, programming_mode,
          rxOnWhenIdle, led, tasklets, g_reset_state, state_snapshot, count,
          reset_button, g_LED_1, lsab_led, pins, installed, group_object_table, since_last_wake, role, credentials, null_word, events, trace>>

----------------------------------------------------------------------------
\* enum reset_button_state
KNX_RESET == 0
THREAD_RESET == 1
IGNORE_FURTHER_ACTION == 2

\* enum ImplementationDefinedParameters
RESET_HOLD_AND_LONG_PRESS_THRESHOLD_MS == 3000
PROGRAMMING_MODE_INDICATOR_FLASHING_PERIOD_MS == 1000
RESET_INDICATOR_FLICKER_COUNT == 5
RESET_KNX_INDICATOR_FLICKER_PERIOD_MS == 300
RESET_THREAD_INDICATOR_FLICKER_PERIOD_MS == 600
SCHEDULE_NOW == 0

\* hardware_sleep: "if (taskletTimeLeft > 100 && ...)"
MIN_USEFUL_SLEEP_MS == 100
\* sleep_if_possible: 0x7FFFFFFF
NO_APP_EVENT == 2147483647
\* main(): "if (joinCooldownTimer == 30)" and "WAIT_ms(200)"
JOIN_COOLDOWN == 30
JOIN_WAIT_MS == 200

\* Set in knx_iot_sleepy_main_extern.h, which is not among the sources: the
\* values are representative.
SED_POLL_PERIOD == 600
SED_MIN_AWAKE_TIME == 150

LED_ON == "on"
LED_OFF == "off"
NULL == "NULL"

\* Bounds of the model.
\* Button events and network requests in one run.
MaxEvents == 3

Min(a, b) == IF a < b THEN a ELSE b
Max(a, b) == IF a > b THEN a ELSE b

\* An oc_clock_time_t (64 bits) is hi * 2^31 + lo with lo < 2^31.
Clock(hi, lo) == [hi |-> hi, lo |-> lo]

\* Values oc_main_poll() may return (0: no event).
NextEvents == {Clock(0, 0), Clock(0, 100), Clock(0, 150), Clock(1, 0)}

\* What reading *(enum reset_button_state *)NULL may give: a trap, or the
\* word at address 0, which may be any enumerator or none.  It is not known
\* before the first read and the same at every read after it.
Trap == -1
Unread == -2
NullReads == {Trap, KNX_RESET, THREAD_RESET, 7}

----------------------------------------------------------------------------
\* The tasklets, in the order hardware_init() initialises them.
TaskletNames == <<"g_sed_poll_tasklet", "g_programming_mode_handler",
                  "g_reset_done_indicator">>
Tasklets == {TaskletNames[i] : i \in 1..Len(TaskletNames)}
Rank(n) == CHOOSE i \in 1..Len(TaskletNames) : TaskletNames[i] = n

Idle == [queued |-> FALSE, left |-> 0, ctx |-> NULL]

\* The device state as one record.
St == [halt |-> halt, programming_mode |-> programming_mode,
       rxOnWhenIdle |-> rxOnWhenIdle, led |-> led, tasklets |-> tasklets,
       g_reset_state |-> g_reset_state, state_snapshot |-> state_snapshot,
       count |-> count, since_last_wake |-> since_last_wake, role |-> role,
       credentials |-> credentials, null_word |-> null_word,
       reset_button |-> reset_button, g_LED_1 |-> g_LED_1, lsab_led |-> lsab_led,
       trace |-> <<>>]

Set(s) ==
    /\ halt' = s.halt
    /\ programming_mode' = s.programming_mode
    /\ rxOnWhenIdle' = s.rxOnWhenIdle
    /\ led' = s.led
    /\ tasklets' = s.tasklets
    /\ g_reset_state' = s.g_reset_state
    /\ state_snapshot' = s.state_snapshot
    /\ count' = s.count
    /\ since_last_wake' = s.since_last_wake
    /\ role' = s.role
    /\ credentials' = s.credentials
    /\ null_word' = s.null_word
    /\ reset_button' = s.reset_button
    /\ g_LED_1' = s.g_LED_1
    /\ lsab_led' = s.lsab_led
    /\ trace' = s.trace
    /\ UNCHANGED <<pins, installed, group_object_table>>

\* A call the step makes, with what it was given.
Emit(s, op, arg) == [s EXCEPT !.trace = Append(@, [op |-> op, arg |-> arg])]

\* Code after a call that does not return is not run.
Then(s, t) == IF s.halt # "run" THEN s ELSE t

----------------------------------------------------------------------------
\* cascoda_tasklet: the deferred-task scheduler.

\* TASKLET_ScheduleDelta refusing a tasklet that is already queued.
TASKLET_ScheduleDelta_KeepsPending(s, n, delta, ctx) ==
    IF s.tasklets[n].queued
    THEN Emit(s, "TASKLET_ScheduleDelta", <<n, delta, ctx>>)
    ELSE Emit([s EXCEPT !.tasklets[n] = [queued |-> TRUE, left |-> delta, ctx |-> ctx]],
              "TASKLET_ScheduleDelta", <<n, delta, ctx>>)

TASKLET_ScheduleDelta(s, n, delta, ctx) ==
    Emit([s EXCEPT !.tasklets[n] = [queued |-> TRUE, left |-> delta, ctx |-> ctx]],
         "TASKLET_ScheduleDelta", <<n, delta, ctx>>)

TASKLET_Cancel(s, n) == [s EXCEPT !.tasklets[n] = Idle]

TASKLET_IsQueued(s, n) == s.tasklets[n].queued

Queued(s) == {n \in Tasklets : s.tasklets[n].queued}

\* *aTimeDelta is left as it was when nothing is queued.
TASKLET_GetTimeToNext(s, timeDelta) ==
    IF Queued(s) = {} THEN timeDelta
    ELSE LET n == CHOOSE m \in Queued(s) :
                      \A k \in Queued(s) : s.tasklets[m].left <= s.tasklets[k].left
         IN Max(0, s.tasklets[n].left)

\* Time passing: dt milliseconds later.
Elapse(s, dt) ==
    [s EXCEPT !.tasklets = [n \in Tasklets |->
                  IF @[n].queued THEN [@[n] EXCEPT !.left = @ - dt] ELSE @[n]],
              !.since_last_wake = Min(@ + dt, SED_MIN_AWAKE_TIME)]

----------------------------------------------------------------------------
\* Collaborators, by the effect this code relies on.

knx_publish_service(s) == Emit(s, "knx_publish_service", s.programming_mode)

oc_knx_device_set_programming_mode(s, b) == [s EXCEPT !.programming_mode = b]

oc_knx_device_in_programming_mode(s) == s.programming_mode

otThreadSetLinkMode(s, rx) == [s EXCEPT !.rxOnWhenIdle = rx]

DVBD_SetLED(s, v) == Emit([s EXCEPT !.led = v], "DVBD_SetLED", v)

Not(v) == IF v = LED_ON THEN LED_OFF ELSE LED_ON

BSP_SystemReset(s) == Emit([s EXCEPT !.halt = "reset"], "BSP_SystemReset", 0)

\* The stack's reset; what it does to the stack's own tables is not modelled.
oc_reset_device(s) ==
    Emit(s, "oc_reset_device",
         [pm |-> s.programming_mode,
          flicker |-> TASKLET_IsQueued(s, "g_programming_mode_handler")])

PlatformEraseJoinerCredentials(s) ==
    Emit([s EXCEPT !.credentials = FALSE], "PlatformEraseJoinerCredentials",
         [pm |-> s.programming_mode,
          flicker |-> TASKLET_IsQueued(s, "g_programming_mode_handler")])

----------------------------------------------------------------------------
\* Programming mode.

\* programming_mode_handler toggling the LED once and not re-arming itself.
programming_mode_handler_SingleBlink(s) == DVBD_SetLED(s, Not(s.led))

programming_mode_handler(s) ==
    LET s1 == DVBD_SetLED(s, Not(s.led))
    IN TASKLET_ScheduleDelta(s1, "g_programming_mode_handler",
           PROGRAMMING_MODE_INDICATOR_FLASHING_PERIOD_MS \div 2, NULL)

\* exit_programming_mode leaving the flicker tasklet queued.
exit_programming_mode_NoCancel(s) ==
    LET s1 == otThreadSetLinkMode(s, FALSE)
        s2 == oc_knx_device_set_programming_mode(s1, FALSE)
        s4 == DVBD_SetLED(s2, LED_OFF)
    IN knx_publish_service(s4)

\* exit_programming_mode leaving the LED as the flicker left it.
exit_programming_mode_NoLedOff(s) ==
    LET s1 == otThreadSetLinkMode(s, FALSE)
        s2 == oc_knx_device_set_programming_mode(s1, FALSE)
        s3 == TASKLET_Cancel(s2, "g_programming_mode_handler")
    IN knx_publish_service(s3)

exit_programming_mode(s) ==
    LET s1 == otThreadSetLinkMode(s, FALSE)
        s2 == oc_knx_device_set_programming_mode(s1, FALSE)
        s3 == TASKLET_Cancel(s2, "g_programming_mode_handler")
        s4 == DVBD_SetLED(s3, LED_OFF)
    IN knx_publish_service(s4)

\* enter_programming_mode leaving the link mode as it is.
enter_programming_mode_NoLinkMode(s) ==
    LET s2 == oc_knx_device_set_programming_mode(s, TRUE)
        s3 == TASKLET_ScheduleDelta(s2, "g_programming_mode_handler", SCHEDULE_NOW, NULL)
    IN knx_publish_service(s3)

enter_programming_mode(s) ==
    LET s1 == otThreadSetLinkMode(s, TRUE)
        s2 == oc_knx_device_set_programming_mode(s1, TRUE)
        s3 == TASKLET_ScheduleDelta(s2, "g_programming_mode_handler", SCHEDULE_NOW, NULL)
    IN knx_publish_service(s3)

\* prog_mode_short_press_cb without the test of the current mode.
prog_mode_short_press_cb_AlwaysEnter(s) == enter_programming_mode(s)

\* prog_mode_short_press_cb starting the reset sequence again as well.
prog_mode_short_press_cb_RearmsReset(s) ==
    [(IF oc_knx_device_in_programming_mode(s)
      THEN exit_programming_mode(s)
      ELSE enter_programming_mode(s)) EXCEPT !.g_reset_state = KNX_RESET]

prog_mode_short_press_cb(s) ==
    IF oc_knx_device_in_programming_mode(s)
    THEN exit_programming_mode(s)
    ELSE enter_programming_mode(s)

programming_mode_embedded(s, b) ==
    IF b = oc_knx_device_in_programming_mode(s) THEN s
    ELSE IF b THEN enter_programming_mode(s)
    ELSE exit_programming_mode(s)

restart_cb_RearmsReset(s) == [exit_programming_mode(s) EXCEPT !.g_reset_state = KNX_RESET]

restart_cb(s) == exit_programming_mode(s)

----------------------------------------------------------------------------
\* Reset.

\* reset_done_feedback without the LED forced off on the final iteration.
reset_done_feedback_NoForcedOff(s0, context, u) ==
    LET s == Emit(IF context = NULL THEN [s0 EXCEPT !.null_word = u] ELSE s0,
                  "reset_done_feedback",
                  [context |-> context, count |-> s0.count, led |-> s0.led])
        reset_type == IF context = NULL THEN u ELSE s.state_snapshot
    IN IF context = NULL /\ u = Trap THEN [s EXCEPT !.halt = "fault"]
       ELSE IF s.count < RESET_INDICATOR_FLICKER_COUNT
       THEN LET s1 == [s EXCEPT !.count = (@ + 1) % 256]
                s2 == DVBD_SetLED(s1, Not(s1.led))
            IN IF reset_type = KNX_RESET
               THEN TASKLET_ScheduleDelta(s2, "g_reset_done_indicator",
                        RESET_KNX_INDICATOR_FLICKER_PERIOD_MS \div 2, context)
               ELSE IF reset_type = THREAD_RESET
               THEN TASKLET_ScheduleDelta(s2, "g_reset_done_indicator",
                        RESET_THREAD_INDICATOR_FLICKER_PERIOD_MS \div 2, context)
               ELSE s2
       ELSE LET s1 == [s EXCEPT !.count = 0]
            IN IF reset_type = THREAD_RESET THEN BSP_SystemReset(s1) ELSE s1

\* context is &state_snapshot or NULL; u is what reading through NULL gives.
reset_done_feedback(s0, context, u) ==
    LET s == Emit(IF context = NULL THEN [s0 EXCEPT !.null_word = u] ELSE s0,
                  "reset_done_feedback",
                  [context |-> context, count |-> s0.count, led |-> s0.led])
        reset_type == IF context = NULL THEN u ELSE s.state_snapshot
    IN IF context = NULL /\ u = Trap THEN [s EXCEPT !.halt = "fault"]
       ELSE IF s.count < RESET_INDICATOR_FLICKER_COUNT
       THEN LET s1 == [s EXCEPT !.count = (@ + 1) % 256]
                s2 == DVBD_SetLED(s1, Not(s1.led))
            IN IF reset_type = KNX_RESET
               THEN TASKLET_ScheduleDelta(s2, "g_reset_done_indicator",
                        RESET_KNX_INDICATOR_FLICKER_PERIOD_MS \div 2, context)
               ELSE IF reset_type = THREAD_RESET
               THEN TASKLET_ScheduleDelta(s2, "g_reset_done_indicator",
                        RESET_THREAD_INDICATOR_FLICKER_PERIOD_MS \div 2, context)
               ELSE s2
       ELSE LET s1 == [s EXCEPT !.count = 0]
                s2 == DVBD_SetLED(s1, LED_OFF)
            IN IF reset_type = THREAD_RESET THEN BSP_SystemReset(s2) ELSE s2

\* reset_hold_cb leaving the IGNORE_FURTHER_ACTION case by break instead of
\* return.
reset_hold_cb_IgnoreAdvances(s) ==
    IF s.g_reset_state = KNX_RESET
    THEN LET s1 == IF oc_knx_device_in_programming_mode(s)
                   THEN exit_programming_mode(s) ELSE s
             s2 == oc_reset_device(s1)
             s3 == [s2 EXCEPT !.state_snapshot = KNX_RESET]
             s4 == TASKLET_ScheduleDelta(s3, "g_reset_done_indicator",
                                         SCHEDULE_NOW, "state_snapshot")
             s5 == knx_publish_service(s4)
         IN [s5 EXCEPT !.g_reset_state = @ + 1]
    ELSE IF s.g_reset_state = THREAD_RESET
    THEN LET s1 == PlatformEraseJoinerCredentials(s)
             s2 == [s1 EXCEPT !.state_snapshot = THREAD_RESET]
             s3 == TASKLET_ScheduleDelta(s2, "g_reset_done_indicator",
                                         SCHEDULE_NOW, "state_snapshot")
         IN [s3 EXCEPT !.g_reset_state = @ + 1]
    ELSE [s EXCEPT !.g_reset_state = @ + 1]

\* reset_hold_cb leaving the THREAD_RESET case by return instead of break.
reset_hold_cb_NoAdvance(s) ==
    IF s.g_reset_state = KNX_RESET
    THEN LET s1 == IF oc_knx_device_in_programming_mode(s)
                   THEN exit_programming_mode(s) ELSE s
             s2 == oc_reset_device(s1)
             s3 == [s2 EXCEPT !.state_snapshot = KNX_RESET]
             s4 == TASKLET_ScheduleDelta(s3, "g_reset_done_indicator",
                                         SCHEDULE_NOW, "state_snapshot")
             s5 == knx_publish_service(s4)
         IN [s5 EXCEPT !.g_reset_state = @ + 1]
    ELSE IF s.g_reset_state = THREAD_RESET
    THEN LET s1 == PlatformEraseJoinerCredentials(s)
             s2 == [s1 EXCEPT !.state_snapshot = THREAD_RESET]
         IN TASKLET_ScheduleDelta(s2, "g_reset_done_indicator",
                                  SCHEDULE_NOW, "state_snapshot")
    ELSE s

reset_hold_cb(s) ==
    IF s.g_reset_state = KNX_RESET
    THEN LET s1 == IF oc_knx_device_in_programming_mode(s)
                   THEN exit_programming_mode(s) ELSE s
             s2 == oc_reset_device(s1)
             s3 == [s2 EXCEPT !.state_snapshot = KNX_RESET]
             s4 == TASKLET_ScheduleDelta(s3, "g_reset_done_indicator",
                                         SCHEDULE_NOW, "state_snapshot")
             s5 == knx_publish_service(s4)
         IN [s5 EXCEPT !.g_reset_state = @ + 1]
    ELSE IF s.g_reset_state = THREAD_RESET
    THEN LET s1 == PlatformEraseJoinerCredentials(s)
             s2 == [s1 EXCEPT !.state_snapshot = THREAD_RESET]
             s3 == TASKLET_ScheduleDelta(s2, "g_reset_done_indicator",
                                         SCHEDULE_NOW, "state_snapshot")
         IN [s3 EXCEPT !.g_reset_state = @ + 1]
    ELSE s

reset_long_press_cb(s) == [s EXCEPT !.g_reset_state = KNX_RESET]

\* reset_init with a long-press threshold above the hold threshold.
reset_init_LongerLongPress ==
    [hold       |-> [callback  |-> "reset_hold_cb",
                     threshold |-> RESET_HOLD_AND_LONG_PRESS_THRESHOLD_MS],
     long_press |-> [callback  |-> "reset_long_press_cb",
                     threshold |-> 2 * RESET_HOLD_AND_LONG_PRESS_THRESHOLD_MS]]

\* reset_init: what DVBD_SetButtonHoldCallback and
\* DVBD_SetButtonLongPressCallback are given for the reset button.
reset_init ==
    [hold       |-> [callback  |-> "reset_hold_cb",
                     threshold |-> RESET_HOLD_AND_LONG_PRESS_THRESHOLD_MS],
     long_press |-> [callback  |-> "reset_long_press_cb",
                     threshold |-> RESET_HOLD_AND_LONG_PRESS_THRESHOLD_MS]]

reset_embedded(s, u) ==
    LET s1 == reset_done_feedback(s, NULL, u)
    IN Then(s1, exit_programming_mode(s1))

----------------------------------------------------------------------------
\* Keep-alive.

sed_poll_handler(s) == Emit(s, "otLinkSendDataRequest", 0)

\* The callback each tasklet was given by TASKLET_Init, called with the
\* context it was scheduled with.
Callback(s, n, context, u) ==
    IF n = "g_sed_poll_tasklet" THEN sed_poll_handler(s)
    ELSE IF n = "g_programming_mode_handler" THEN programming_mode_handler(s)
    ELSE reset_done_feedback(s, context, u)

\* RunDue taking a tasklet off the queue only after its callback has run.
RECURSIVE RunDue_DequeueAfter(_, _, _)
RunDue_DequeueAfter(s, todo, u) ==
    LET ready == {n \in todo : s.tasklets[n].queued}
    IN IF s.halt # "run" \/ ready = {} THEN s
       ELSE LET n == CHOOSE m \in ready : \A k \in ready :
                         \/ s.tasklets[m].left < s.tasklets[k].left
                         \/ /\ s.tasklets[m].left = s.tasklets[k].left
                            /\ Rank(m) <= Rank(k)
                s1 == Callback(s, n, s.tasklets[n].ctx, u)
                s2 == [s1 EXCEPT !.tasklets[n] = Idle]
            IN RunDue_DequeueAfter(s2, todo \ {n}, u)

\* One scheduler tick: the tasklets that are due, earliest first, each taken
\* off the queue before its callback runs.
RECURSIVE RunDue(_, _, _)
RunDue(s, todo, u) ==
    LET ready == {n \in todo : s.tasklets[n].queued}
    IN IF s.halt # "run" \/ ready = {} THEN s
       ELSE LET n == CHOOSE m \in ready : \A k \in ready :
                         \/ s.tasklets[m].left < s.tasklets[k].left
                         \/ /\ s.tasklets[m].left = s.tasklets[k].left
                            /\ Rank(m) <= Rank(k)
                s1 == [s EXCEPT !.tasklets[n] = Idle]
                s2 == Callback(s1, n, s.tasklets[n].ctx, u)
            IN RunDue(s2, todo \ {n}, u)

\* TASKLET_Process running every queued tasklet, due or not.
TASKLET_Process_Early(s, u) == RunDue(s, Queued(s), u)

TASKLET_Process(s, u) ==
    RunDue(s, {n \in Tasklets : s.tasklets[n].queued /\ s.tasklets[n].left <= 0}, u)

----------------------------------------------------------------------------
\* Sleep.

\* hardware_can_sleep as built without SLEEPY: programming mode is not asked.
hardware_can_sleep_IgnorePm(s, dvbdCanSleep) == dvbdCanSleep

hardware_can_sleep(s, dvbdCanSleep) ==
    dvbdCanSleep /\ ~oc_knx_device_in_programming_mode(s)

hardware_reinitialise(s) == Emit(s, "hardware_reinitialise", 0)

reinitialise_after_wakeup(s) == hardware_reinitialise(s)

\* The device is suspended for at most aTimeout ms and is awake again after
\* w ms (w < aTimeout: woken by an interrupt).
DVBD_DevboardSleep(s, aTimeout, nextAppEvent, w) ==
    LET s1 == Emit(s, "DVBD_DevboardSleep",
                   [timeout |-> aTimeout,
                    toNextTasklet |-> {s.tasklets[n].left : n \in Queued(s)},
                    nextAppEvent |-> nextAppEvent,
                    pm |-> s.programming_mode,
                    poll |-> TASKLET_IsQueued(s, "g_sed_poll_tasklet"),
                    awake |-> s.since_last_wake,
                    role |-> s.role])
    IN reinitialise_after_wakeup(Elapse(s1, w))

has_min_awake_time_passed(s) == s.since_last_wake >= SED_MIN_AWAKE_TIME

\* sleep_after_joining with the awake time and the role not looked at.
sleep_after_joining_Always(s) == TRUE

\* sleep_after_joining with && for ||.
sleep_after_joining_And(s) == has_min_awake_time_passed(s) /\ s.role # "detached"

sleep_after_joining(s) == has_min_awake_time_passed(s) \/ s.role # "detached"

\* worth_sleeping with >= for >.
worth_sleeping_AtLeast(taskletTimeLeft) == taskletTimeLeft >= MIN_USEFUL_SLEEP_MS

worth_sleeping(taskletTimeLeft) == taskletTimeLeft > MIN_USEFUL_SLEEP_MS

\* hardware_sleep without the clamp to nextAppEvent.
hardware_sleep_NoAppEventClamp(s, nextAppEvent, w) ==
    LET s1 == IF ~TASKLET_IsQueued(s, "g_sed_poll_tasklet")
              THEN TASKLET_ScheduleDelta(s, "g_sed_poll_tasklet", SED_POLL_PERIOD, NULL)
              ELSE s
        taskletTimeLeft == TASKLET_GetTimeToNext(s1, SED_POLL_PERIOD)
    IN IF worth_sleeping(taskletTimeLeft) /\ sleep_after_joining(s1)
       THEN LET s2 == DVBD_DevboardSleep(s1, taskletTimeLeft, nextAppEvent,
                                         Min(w, taskletTimeLeft))
            IN [s2 EXCEPT !.since_last_wake = 0]
       ELSE s1

\* hardware_sleep without the data poll being scheduled.
hardware_sleep_NoPoll(s, nextAppEvent, w) ==
    LET toNext == TASKLET_GetTimeToNext(s, SED_POLL_PERIOD)
        taskletTimeLeft == IF toNext > nextAppEvent THEN nextAppEvent ELSE toNext
    IN IF worth_sleeping(taskletTimeLeft) /\ sleep_after_joining(s)
       THEN LET s2 == DVBD_DevboardSleep(s, taskletTimeLeft, nextAppEvent,
                                         Min(w, taskletTimeLeft))
            IN [s2 EXCEPT !.since_last_wake = 0]
       ELSE s

\* hardware_sleep with the time of the last wake taken on every call.
hardware_sleep_StampsAlways(s, nextAppEvent, w) ==
    LET s1 == IF ~TASKLET_IsQueued(s, "g_sed_poll_tasklet")
              THEN TASKLET_ScheduleDelta(s, "g_sed_poll_tasklet", SED_POLL_PERIOD, NULL)
              ELSE s
        toNext == TASKLET_GetTimeToNext(s1, SED_POLL_PERIOD)
        taskletTimeLeft == IF toNext > nextAppEvent THEN nextAppEvent ELSE toNext
        s2 == IF worth_sleeping(taskletTimeLeft) /\ sleep_after_joining(s1)
              THEN DVBD_DevboardSleep(s1, taskletTimeLeft, nextAppEvent,
                                      Min(w, taskletTimeLeft))
              ELSE s1
    IN [s2 EXCEPT !.since_last_wake = 0]

\* hardware_sleep scheduling the data poll whether it is queued or not.
hardware_sleep_Reschedules(s, nextAppEvent, w) ==
    LET s1 == TASKLET_ScheduleDelta(s, "g_sed_poll_tasklet", SED_POLL_PERIOD, NULL)
        toNext == TASKLET_GetTimeToNext(s1, SED_POLL_PERIOD)
        taskletTimeLeft == IF toNext > nextAppEvent THEN nextAppEvent ELSE toNext
    IN IF worth_sleeping(taskletTimeLeft) /\ sleep_after_joining(s1)
       THEN LET s2 == DVBD_DevboardSleep(s1, taskletTimeLeft, nextAppEvent,
                                         Min(w, taskletTimeLeft))
            IN [s2 EXCEPT !.since_last_wake = 0]
       ELSE s1

hardware_sleep(s, nextAppEvent, w) ==
    LET s1 == IF ~TASKLET_IsQueued(s, "g_sed_poll_tasklet")
              THEN TASKLET_ScheduleDelta(s, "g_sed_poll_tasklet", SED_POLL_PERIOD, NULL)
              ELSE s
        toNext == TASKLET_GetTimeToNext(s1, SED_POLL_PERIOD)
        taskletTimeLeft == IF toNext > nextAppEvent THEN nextAppEvent ELSE toNext
    IN IF worth_sleeping(taskletTimeLeft) /\ sleep_after_joining(s1)
       THEN LET s2 == DVBD_DevboardSleep(s1, taskletTimeLeft, nextAppEvent,
                                         Min(w, taskletTimeLeft))
            IN [s2 EXCEPT !.since_last_wake = 0]
       ELSE s1

\* NextAppEvent with only the values above 0x7FFFFFFF taken as no bound.
NextAppEvent_ZeroKept(timeToNextAppEvent) ==
    IF timeToNextAppEvent.hi > 0 THEN NO_APP_EVENT ELSE timeToNextAppEvent.lo

\* timeToNextAppEvent as sleep_if_possible passes it on.
\* (Below 2^31 the cast to uint32_t changes nothing.)
NextAppEvent(timeToNextAppEvent) ==
    IF timeToNextAppEvent.hi > 0 \/ timeToNextAppEvent = Clock(0, 0)
    THEN NO_APP_EVENT
    ELSE timeToNextAppEvent.lo

PlatformCanSleep(s, platformCanSleep) ==
    Emit(s, "PlatformCanSleep", platformCanSleep)

\* sleep_if_possible without the return on PlatformCanSleep being false.
sleep_if_possible_NoPlatformCheck(s0, timeToNextAppEvent, platformCanSleep, dvbdCanSleep, w) ==
    LET s == PlatformCanSleep(s0, platformCanSleep)
    IN IF ~hardware_can_sleep(s, dvbdCanSleep) THEN s
       ELSE hardware_sleep(s, NextAppEvent(timeToNextAppEvent), w)

sleep_if_possible(s0, timeToNextAppEvent, platformCanSleep, dvbdCanSleep, w) ==
    LET s == PlatformCanSleep(s0, platformCanSleep)
    IN IF ~platformCanSleep THEN s
       ELSE IF ~hardware_can_sleep(s, dvbdCanSleep) THEN s
       ELSE hardware_sleep(s, NextAppEvent(timeToNextAppEvent), w)

----------------------------------------------------------------------------
\* Data point LED_1.

URL_LED_1 == "/p/o_1_1"
URL_PB_1 == "/p/o_2_2"

\* The level of an LED pin for a C truth value: !b is 1 or 0.
LogicalNot(b) == IF b THEN 0 ELSE 1

DVBD_SetLED_LSAB_LED(s, level) ==
    Emit([s EXCEPT !.lsab_led = level], "DVBD_SetLED", <<"LSAB_LED", level>>)

\* The stored value of the switch data point at url.
app_get_DPT_Switch_variable(s, url) == IF url = URL_LED_1 THEN s.g_LED_1 ELSE FALSE

\* put_callback driving the LED whatever the url.
put_callback_AnyUrl(s0, url) ==
    LET s == Emit(s0, "put_callback", url)
    IN DVBD_SetLED_LSAB_LED(s, LogicalNot(app_get_DPT_Switch_variable(s, URL_LED_1)))

put_callback(s0, url) ==
    LET s == Emit(s0, "put_callback", url)
    IN IF url = URL_LED_1
       THEN DVBD_SetLED_LSAB_LED(s, LogicalNot(app_get_DPT_Switch_variable(s, URL_LED_1)))
       ELSE s

\* app_put.cb is what app_set_put_cb was given, if it was called.
do_put_cb(s, url) ==
    IF \E r \in installed : r.call = "app_set_put_cb" /\ r.cb = "put_callback"
    THEN put_callback(s, url)
    ELSE s

\* The entries of a request payload: name, type and value.
RepTypes == {"OC_REP_BOOL", "OC_REP_INT"}
Entries == [iname : {1, 2}, type : RepTypes, value : BOOLEAN]
MaxPayload == 2
Payloads == UNION {[1..n -> Entries] : n \in 0..MaxPayload}

\* The first entry put_LED_1 accepts, if any.
Accepted(payload) ==
    {i \in DOMAIN payload :
        /\ payload[i].iname = 1 /\ payload[i].type = "OC_REP_BOOL"
        /\ \A j \in 1..(i - 1) : ~(payload[j].iname = 1 /\ payload[j].type = "OC_REP_BOOL")}

\* put_LED_1 storing the value and not calling the put callback.
put_LED_1_NoCallback(s0, payload) ==
    LET s == Emit(s0, "put_LED_1", payload)
    IN IF Accepted(payload) = {}
       THEN Emit(s, "oc_send_response", "OC_STATUS_BAD_REQUEST")
       ELSE LET i == CHOOSE k \in Accepted(payload) : TRUE
                s1 == [s EXCEPT !.g_LED_1 = payload[i].value]
            IN Emit(s1, "oc_send_cbor_response", "OC_STATUS_CHANGED")

put_LED_1(s0, payload) ==
    LET s == Emit(s0, "put_LED_1", payload)
    IN IF Accepted(payload) = {}
       THEN Emit(s, "oc_send_response", "OC_STATUS_BAD_REQUEST")
       ELSE LET i == CHOOSE k \in Accepted(payload) : TRUE
                s1 == [s EXCEPT !.g_LED_1 = payload[i].value]
                s2 == Emit(s1, "oc_send_cbor_response", "OC_STATUS_CHANGED")
            IN do_put_cb(s2, URL_LED_1)


-----------------------------------------------------------------------------
\* app_is_url_in_use

\* oc_core_get_group_object_table_total_size()
oc_core_get_group_object_table_total_size(table) == Len(table)

\* oc_core_find_group_object_table_url_from_index(index): the url of entry
\* index (from 0), the empty string where there is none.
oc_core_find_group_object_table_url_from_index(table, index) ==
    IF index + 1 \in DOMAIN table THEN table[index + 1] ELSE ""

\* for (index = 0; index++; index < table_size) { ... }: the loop's condition
\* is index++, whose value is that of index before the increment, and
\* index < table_size stands where the increment should, evaluated after each
\* pass for nothing. ForLoop(table, url, index) is the loop from the test of
\* its condition with the given index; TRUE is the return from the body.
RECURSIVE ForLoop(_, _, _)
ForLoop(table, url, index) ==
    IF index = 0
    THEN FALSE
    ELSE LET oc_str == oc_core_find_group_object_table_url_from_index(table, index + 1)
         IN IF oc_str # "" /\ url = oc_str
            THEN TRUE
            ELSE ForLoop(table, url, index + 1)

app_is_url_in_use(table, url) == ForLoop(table, url, 0)

----------------------------------------------------------------------------
\* hardware_init(): what it initialises and registers, by the function that
\* makes the call.

\* enum ImplementationDefinedParameters: the uses of the board's LED/buttons.
ImplementationDefinedParameters ==
    [LSSB_BUTTON |-> "DEV_SWITCH_1",
     LSAB_LED |-> "DEV_SWITCH_2",
     PROGRAMMING_MODE_INDICATOR |-> "DEV_SWITCH_3",
     TRIGGER_FOR_PROGRAMMING_MODE_AND_RESET |-> "DEV_SWITCH_4"]

Install(inst, by, call, on, cb) ==
    inst \cup {[by |-> by, call |-> call, on |-> on, cb |-> cb]}

\* programming_mode_init without the test for the LED being the button.
programming_mode_init_NoAliasTest(inst, flashing_led, program_mode_button) ==
    LET i1 == Install(inst, "programming_mode_init", "TASKLET_Init",
                      "g_programming_mode_handler", "programming_mode_handler")
        i2 == Install(i1, "programming_mode_init", "DVBD_RegisterButtonIRQInput",
                      program_mode_button, NULL)
        i3 == Install(i2, "programming_mode_init", "DVBD_RegisterLEDOutput",
                      flashing_led, NULL)
    IN Install(i3, "programming_mode_init", "DVBD_SetButtonShortPressCallback",
               program_mode_button, "prog_mode_short_press_cb")

programming_mode_init(inst, flashing_led, program_mode_button) ==
    IF flashing_led = program_mode_button THEN inst
    ELSE LET i1 == Install(inst, "programming_mode_init", "TASKLET_Init",
                           "g_programming_mode_handler", "programming_mode_handler")
             i2 == Install(i1, "programming_mode_init", "DVBD_RegisterButtonIRQInput",
                           program_mode_button, NULL)
             i3 == Install(i2, "programming_mode_init", "DVBD_RegisterLEDOutput",
                           flashing_led, NULL)
         IN Install(i3, "programming_mode_init", "DVBD_SetButtonShortPressCallback",
                    program_mode_button, "prog_mode_short_press_cb")

\* reset_init's calls, for the button it is given.
reset_init_calls(inst, button) ==
    LET i1 == Install(inst, "reset_init", "TASKLET_Init",
                      "g_reset_done_indicator", "reset_done_feedback")
        i2 == Install(i1, "reset_init", "DVBD_SetButtonHoldCallback",
                      button, reset_init.hold.callback)
    IN Install(i2, "reset_init", "DVBD_SetButtonLongPressCallback",
               button, reset_init.long_press.callback)

knx_specific_init(inst, p) ==
    LET i1 == programming_mode_init(inst, p.PROGRAMMING_MODE_INDICATOR,
                                    p.TRIGGER_FOR_PROGRAMMING_MODE_AND_RESET)
        i2 == reset_init_calls(i1, p.TRIGGER_FOR_PROGRAMMING_MODE_AND_RESET)
    IN Install(i2, "knx_specific_init", "oc_set_restart_cb", NULL, "restart_cb")

hardware_init(inst, p) ==
    LET i1 == Install(inst, "hardware_init", "app_set_put_cb", NULL, "put_callback")
        i2 == Install(i1, "hardware_init", "TASKLET_Init",
                      "g_sed_poll_tasklet", "sed_poll_handler")
        i3 == knx_specific_init(i2, p)
        i4 == Install(i3, "hardware_init", "DVBD_RegisterLEDOutput", p.LSAB_LED, NULL)
        i5 == Install(i4, "hardware_init", "DVBD_RegisterButtonInput", p.LSSB_BUTTON, NULL)
    IN Install(i5, "hardware_init", "DVBD_SetButtonShortPressCallback",
               p.LSSB_BUTTON, "lssb_button_pressed")

----------------------------------------------------------------------------
\* main()

Init ==
    /\ pc = "join"
    /\ joinCooldownTimer = 0
    /\ halt = "run"
    /\ programming_mode = FALSE
    /\ rxOnWhenIdle = TRUE
    /\ led = LED_OFF
    /\ tasklets = [n \in Tasklets |-> Idle]
    /\ g_reset_state = KNX_RESET
    /\ state_snapshot = KNX_RESET
    /\ count = 0
    /\ reset_button = reset_init
    /\ g_LED_1 = FALSE
    /\ lsab_led = 0
    /\ pins = ImplementationDefinedParameters
    /\ installed = hardware_init({}, pins)
    /\ group_object_table = <<>>
    /\ since_last_wake = 0
    /\ role = "disabled"
    /\ credentials = TRUE
    /\ null_word = Unread
    /\ events = 0
    /\ trace = <<>>

Running(p) == pc = p /\ halt = "run"

\* The values a read through NULL may give in this state.
Reads == IF null_word = Unread THEN NullReads ELSE {null_word}

\* What PlatformTryJoin may return.
JoinResults == {"OT_ERROR_NONE", "OT_ERROR_ALREADY", "OT_ERROR_NOT_FOUND",
                "OT_ERROR_SECURITY", "OT_ERROR_INVALID_ARGS"}

\* The join loop's break, also taken on an error that a retry cannot cure.
JoinEnds_AlsoOnUnrecoverable(otErr) ==
    otErr \in {"OT_ERROR_NONE", "OT_ERROR_ALREADY",
               "OT_ERROR_SECURITY", "OT_ERROR_INVALID_ARGS"}

\* if (otErr == OT_ERROR_NONE || otErr == OT_ERROR_ALREADY) break;
\* The join loop left after any attempt.
JoinEnds_AfterAnyAttempt(otErr) == TRUE

JoinEnds(otErr) == otErr = "OT_ERROR_NONE" \/ otErr = "OT_ERROR_ALREADY"

\* One pass of the join loop without a join attempt.
JoinWait ==
    /\ Running("join")
    /\ joinCooldownTimer # JOIN_COOLDOWN
    /\ \E u \in Reads :
          LET s == TASKLET_Process(St, u)
          IN Set(Then(s, Elapse(s, JOIN_WAIT_MS)))
    /\ joinCooldownTimer' = joinCooldownTimer + 1
    /\ UNCHANGED <<pc, events>>

\* A pass that tries to join and fails: the cooldown starts again.
JoinFail ==
    /\ Running("join")
    /\ joinCooldownTimer = JOIN_COOLDOWN
    /\ \E u \in Reads, otErr \in JoinResults :
          /\ ~JoinEnds(otErr)
          /\ LET s == TASKLET_Process(St, u)
             IN Set(Then(s, Elapse(Emit(s, "PlatformTryJoin", otErr), JOIN_WAIT_MS)))
    /\ joinCooldownTimer' = 1
    /\ UNCHANGED <<pc, events>>

\* A pass whose join attempt ends the loop; main() then enables Thread, sets
\* the sleepy link mode, starts the stack and publishes the service.
JoinDone ==
    /\ Running("join")
    /\ joinCooldownTimer = JOIN_COOLDOWN
    /\ \E u \in Reads, otErr \in JoinResults :
          /\ JoinEnds(otErr)
          /\ LET s == TASKLET_Process(St, u)
             IN Set(Then(s, knx_publish_service(
                        otThreadSetLinkMode(
                            [Emit(s, "PlatformTryJoin", otErr) EXCEPT !.role = "detached"],
                            FALSE))))
    /\ pc' = "cascoda_io_handler"
    /\ UNCHANGED <<joinCooldownTimer, events>>

\* Time passes between two passes of the loop: up to the moment the next
\* tasklet is due, or the minimum awake time when none is queued.
Steps(s) == {dt \in {TASKLET_GetTimeToNext(s, SED_MIN_AWAKE_TIME)} : dt > 0}

Tick ==
    /\ Running("cascoda_io_handler")
    /\ \E dt \in Steps(St) : Set(Elapse(St, dt))
    /\ UNCHANGED <<pc, joinCooldownTimer, events>>

\* cascoda_io_handler going on to the button poll with the due tasklets left
\* on the queue.
cascoda_io_handler_NoTasklets ==
    /\ Running("cascoda_io_handler")
    /\ Set(St)
    /\ pc' = "hardware_poll"
    /\ UNCHANGED <<joinCooldownTimer, events>>

cascoda_io_handler ==
    /\ Running("cascoda_io_handler")
    /\ \E u \in Reads : Set(TASKLET_Process(St, u))
    /\ pc' = "hardware_poll"
    /\ UNCHANGED <<joinCooldownTimer, events>>

\* DVBD_PollButtons: the callback of the event the button gives, if any.
ButtonEvents == {"none", "short_press", "hold", "long_press"}

ButtonCallback(s, cb) ==
    IF cb = "reset_hold_cb" THEN reset_hold_cb(Emit(s, cb, s.g_reset_state))
    ELSE IF cb = "reset_long_press_cb" THEN reset_long_press_cb(Emit(s, cb, 0))
    ELSE s

DVBD_PollButtons(s, ev) ==
    IF ev = "short_press" THEN prog_mode_short_press_cb(Emit(s, "prog_mode_short_press_cb", 0))
    ELSE IF ev = "hold" THEN ButtonCallback(s, s.reset_button.hold.callback)
    ELSE IF ev = "long_press" THEN ButtonCallback(s, s.reset_button.long_press.callback)
    ELSE s

hardware_poll ==
    /\ Running("hardware_poll")
    /\ \E ev \in ButtonEvents :
          /\ ev # "none" => events < MaxEvents
          /\ Set(DVBD_PollButtons(St, ev))
          /\ events' = IF ev = "none" THEN events ELSE events + 1
    /\ pc' = "otTaskletsProcess"
    /\ UNCHANGED joinCooldownTimer

\* otTaskletsProcess: the Thread role may change (ot_state_changed publishes).
Roles == {"detached", "child"}

ot_state_changed(s, r) ==
    IF r = s.role THEN s ELSE knx_publish_service([s EXCEPT !.role = r])

otTaskletsProcess ==
    /\ Running("otTaskletsProcess")
    /\ \E r \in Roles : Set(ot_state_changed(St, r))
    /\ pc' = "oc_main_poll"
    /\ UNCHANGED <<joinCooldownTimer, events>>

\* oc_main_poll: the stack handles a request, calling the callbacks main()
\* registered.  The time of the next event, which it returns, is chosen where
\* it is used, in SleepIfPossible.
Requests == {"none", "prog_mode_on", "prog_mode_off", "reset", "restart"}

oc_main_poll_cb(s, req, u) ==
    IF req = "prog_mode_on" THEN programming_mode_embedded(Emit(s, "prog_mode_cb", TRUE), TRUE)
    ELSE IF req = "prog_mode_off" THEN programming_mode_embedded(Emit(s, "prog_mode_cb", FALSE), FALSE)
    ELSE IF req = "reset" THEN reset_embedded(Emit(s, "reset_cb", 0), u)
    ELSE IF req = "restart" THEN restart_cb(Emit(s, "restart_cb", 0))
    ELSE s

oc_main_poll ==
    /\ Running("oc_main_poll")
    /\ \E req \in Requests, u \in Reads :
          /\ req # "none" => events < MaxEvents
          /\ Set(oc_main_poll_cb(St, req, u))
          /\ events' = IF req = "none" THEN events ELSE events + 1
    /\ pc' = "sleep_if_possible"
    /\ UNCHANGED joinCooldownTimer

\* Times after which a sleeping device is woken: by an interrupt, or not
\* before the timeout.
Wakes == {SED_MIN_AWAKE_TIME, SED_POLL_PERIOD}

\* sleep_if_possible(&dev, oc_main_poll()), with what the platform answers.
SleepStep(t, platformCanSleep, dvbdCanSleep, w) ==
    /\ Running("sleep_if_possible")
    /\ Set(sleep_if_possible(St, t, platformCanSleep, dvbdCanSleep, w))
    /\ pc' = "cascoda_io_handler"
    /\ UNCHANGED <<joinCooldownTimer, events>>

SleepIfPossible ==
    \E t \in NextEvents, platformCanSleep \in BOOLEAN, dvbdCanSleep \in BOOLEAN,
       w \in Wakes :
        SleepStep(t, platformCanSleep, dvbdCanSleep, w)

Next ==
    \/ JoinWait
    \/ JoinFail
    \/ JoinDone
    \/ Tick
    \/ cascoda_io_handler
    \/ hardware_poll
    \/ otTaskletsProcess
    \/ oc_main_poll
    \/ SleepIfPossible

Spec == Init /\ [][Next]_vars

\* The poll loop when no button is pressed and no request arrives.
NoButton == hardware_poll /\ events' = events

NoRequest == oc_main_poll /\ events' = events

QuietNext ==
    \/ JoinWait
    \/ JoinFail
    \/ JoinDone
    \/ Tick
    \/ cascoda_io_handler
    \/ NoButton
    \/ otTaskletsProcess
    \/ NoRequest
    \/ SleepIfPossible

\* A pass in which the stack and the board let the device sleep and no
\* application event is pending.
AllowedSleep == \E w \in Wakes : SleepStep(Clock(0, 0), TRUE, TRUE, w)

\* Every step of main() is taken when it is its turn, time keeps passing
\* between the passes of the poll loop, and the stack and the board let the
\* device sleep again and again.
LiveSpec ==
    /\ Init
    /\ [][QuietNext]_vars
    /\ WF_vars(JoinWait)
    /\ WF_vars(JoinFail \/ JoinDone)
    /\ WF_vars(cascoda_io_handler)
    /\ WF_vars(NoButton)
    /\ WF_vars(otTaskletsProcess)
    /\ WF_vars(NoRequest)
    /\ WF_vars(SleepIfPossible)
    /\ SF_vars(Tick)
    /\ SF_vars(AllowedSleep)

\* The poll loop with the buttons left alone while a reset feedback sequence
\* runs: a hold needs the button down for
\* RESET_HOLD_AND_LONG_PRESS_THRESHOLD_MS, longer than a whole sequence.
PacedButtons ==
    /\ hardware_poll
    /\ tasklets["g_reset_done_indicator"].queued => events' = events

\* The Thread role stays as it is.
SteadyRole == otTaskletsProcess /\ role' = role

\* The stack does not let the device sleep.
StayAwake == SleepStep(Clock(0, 0), FALSE, TRUE, SED_POLL_PERIOD)

PacedNext ==
    \/ JoinWait
    \/ JoinFail
    \/ JoinDone
    \/ Tick
    \/ cascoda_io_handler
    \/ PacedButtons
    \/ SteadyRole
    \/ oc_main_poll
    \/ StayAwake

\* The statements of main(), one of which is the next to run.
PacedStep ==
    \/ JoinWait
    \/ JoinFail
    \/ JoinDone
    \/ cascoda_io_handler
    \/ PacedButtons
    \/ SteadyRole
    \/ oc_main_poll
    \/ StayAwake

\* main() keeps running and time keeps passing between the passes of the
\* poll loop, so due tasklets keep being run.
AwakeSpec ==
    /\ Init
    /\ [][PacedNext]_vars
    /\ WF_vars(PacedStep)
    /\ SF_vars(Tick)

\* hardware_init() on a board whose LED/buttons are given to the four uses in
\* any way, two uses of one LED/button included.
DevSwitches == {"DEV_SWITCH_1", "DEV_SWITCH_2", "DEV_SWITCH_3", "DEV_SWITCH_4"}

SetupInit ==
    /\ pc = "hardware_init"
    /\ pins \in [DOMAIN ImplementationDefinedParameters -> DevSwitches]
    /\ installed = {}
    /\ group_object_table = <<>>
    /\ g_LED_1 = FALSE
    /\ lsab_led = 0
    /\ reset_button = [hold       |-> [callback |-> NULL, threshold |-> 0],
                       long_press |-> [callback |-> NULL, threshold |-> 0]]
    /\ joinCooldownTimer = 0
    /\ halt = "run"
    /\ programming_mode = FALSE
    /\ rxOnWhenIdle = TRUE
    /\ led = LED_OFF
    /\ tasklets = [n \in Tasklets |-> Idle]
    /\ g_reset_state = KNX_RESET
    /\ state_snapshot = KNX_RESET
    /\ count = 0
    /\ since_last_wake = 0
    /\ role = "disabled"
    /\ credentials = TRUE
    /\ null_word = Unread
    /\ events = 0
    /\ trace = <<>>

HardwareInit ==
    /\ Running("hardware_init")
    /\ installed' = hardware_init(installed, pins)
    /\ reset_button' = reset_init
    /\ pc' = "join"
    /\ UNCHANGED <<joinCooldownTimer, halt, programming_mode, rxOnWhenIdle, led,
                   tasklets, g_reset_state, state_snapshot, count, pins, g_LED_1, lsab_led,
                   group_object_table, since_last_wake, role, credentials, null_word, events, trace>>

SetupNext == HardwareInit

SetupSpec == SetupInit /\ [][SetupNext]_vars

\* The poll loop when requests on the data points arrive as well.
Urls == {URL_LED_1, URL_PB_1, "/p/o_3_3"}

PutRequest ==
    /\ Running("oc_main_poll")
    /\ events < MaxEvents
    /\ \E payload \in Payloads : Set(put_LED_1(St, payload))
    /\ events' = events + 1
    /\ pc' = "sleep_if_possible"
    /\ UNCHANGED joinCooldownTimer

PutCallback ==
    /\ Running("oc_main_poll")
    /\ events < MaxEvents
    /\ \E url \in Urls : Set(do_put_cb(St, url))
    /\ events' = events + 1
    /\ pc' = "sleep_if_possible"
    /\ UNCHANGED joinCooldownTimer

PutNext == PacedNext \/ PutRequest \/ PutCallback

PutSpec == Init /\ [][PutNext]_vars

\* The group object table of the stack, written by a management client, and
\* app_is_url_in_use() called on it.
MaxTable == 3
TableUrls == Urls \cup {""}

LoadGroupObjectTableEntry ==
    /\ halt = "run"
    /\ Len(group_object_table) < MaxTable
    /\ \E u \in TableUrls : group_object_table' = Append(group_object_table, u)
    /\ trace' = <<>>
    /\ UNCHANGED <<pc, joinCooldownTimer, halt, programming_mode, rxOnWhenIdle, led,
                   tasklets, g_reset_state, state_snapshot, count, reset_button,
                   g_LED_1, lsab_led, pins, installed, since_last_wake, role,
                   credentials, null_word, events>>

AppIsUrlInUse ==
    /\ halt = "run"
    /\ \E url \in Urls :
          trace' = <<[op |-> "app_is_url_in_use",
                      arg |-> <<url, app_is_url_in_use(group_object_table, url)>>]>>
    /\ UNCHANGED <<pc, joinCooldownTimer, halt, programming_mode, rxOnWhenIdle, led,
                   tasklets, g_reset_state, state_snapshot, count, reset_button,
                   g_LED_1, lsab_led, pins, installed, group_object_table,
                   since_last_wake, role, credentials, null_word, events>>

UrlNext == LoadGroupObjectTableEntry \/ AppIsUrlInUse
UrlSpec == Init /\ [][UrlNext]_vars

\* A pass of the poll loop may take long enough for a tasklet to be overdue
\* when the scheduler is next run: two tasklets may then be due in one tick
\* with different due times.
Overrun == 100

LateTick ==
    /\ Running("cascoda_io_handler")
    /\ \E dt \in Steps(St) :
          /\ Cardinality({n \in Tasklets : tasklets[n].queued
                                           /\ tasklets[n].left <= dt + Overrun}) >= 2
          /\ Set(Elapse(St, dt + Overrun))
    /\ UNCHANGED <<pc, joinCooldownTimer, events>>

LateNext == Next \/ LateTick

LateSpec == Init /\ [][LateNext]_vars

\* The poll loop with no button event and no request, sleep_if_possible being
\* called with next-application-event times on both sides of each limit it
\* tests, and the call recorded with what it was given.
AppEventTimes ==
    {Clock(0, 0), Clock(0, 1), Clock(0, 100), Clock(0, 101), Clock(0, 150),
     Clock(0, NO_APP_EVENT), Clock(1, 0), Clock(2, 5)}

SleepCall ==
    /\ Running("sleep_if_possible")
    /\ \E t \in AppEventTimes, platformCanSleep \in BOOLEAN, dvbdCanSleep \in BOOLEAN,
          w \in Wakes :
          Set(sleep_if_possible(
                  Emit(St, "sleep_if_possible",
                       [timeToNextAppEvent |-> t, dvbdCanSleep |-> dvbdCanSleep]),
                  t, platformCanSleep, dvbdCanSleep, w))
    /\ pc' = "cascoda_io_handler"
    /\ UNCHANGED <<joinCooldownTimer, events>>

AppEventNext ==
    \/ JoinWait
    \/ JoinFail
    \/ JoinDone
    \/ Tick
    \/ cascoda_io_handler
    \/ NoButton
    \/ otTaskletsProcess
    \/ NoRequest
    \/ SleepCall

AppEventSpec == Init /\ [][AppEventNext]_vars

----------------------------------------------------------------------------
\* Properties.

Calls(op) == {i \in DOMAIN trace : trace[i].op = op}
Suspends == Calls("DVBD_DevboardSleep")
Suspended == Suspends # {}
Flicker == tasklets["g_programming_mode_handler"]
Feedback == tasklets["g_reset_done_indicator"]
Poll == tasklets["g_sed_poll_tasklet"]
Least(S) == CHOOSE x \in S : \A y \in S : x <= y

HoldEvent == pc = "hardware_poll" /\ trace' # <<>> /\ trace'[1].op = "reset_hold_cb"
LongPressEvent ==
    pc = "hardware_poll" /\ trace' # <<>> /\ trace'[1].op = "reset_long_press_cb"

\* C1: a hold event moves the reset state from KNX_RESET to THREAD_RESET, from
\* THREAD_RESET to IGNORE_FURTHER_ACTION and leaves IGNORE_FURTHER_ACTION as
\* it is, calling nothing and changing nothing there; a long-press event sets
\* the reset state to KNX_RESET from every state.
C1_ResetSequence ==
    [][/\ HoldEvent =>
            /\ g_reset_state' = IF g_reset_state = KNX_RESET THEN THREAD_RESET
                                ELSE IGNORE_FURTHER_ACTION
            /\ g_reset_state = IGNORE_FURTHER_ACTION =>
                  /\ Len(trace') = 1
                  /\ UNCHANGED <<halt, programming_mode, rxOnWhenIdle, led, tasklets,
                                 state_snapshot, count, since_last_wake, role,
                                 credentials, null_word>>
       /\ LongPressEvent => g_reset_state' = KNX_RESET]_vars

\* Three hold events and nothing else: the third was handled in
\* IGNORE_FURTHER_ACTION.
C1_Witness ==
    /\ events = 3
    /\ trace = <<[op |-> "reset_hold_cb", arg |-> IGNORE_FURTHER_ACTION]>>
    /\ g_reset_state = IGNORE_FURTHER_ACTION

\* C2: between callbacks, the flicker tasklet g_programming_mode_handler is
\* queued if and only if the programming-mode flag is true.
C2_FlickerIffProgrammingMode ==
    halt = "run" => (Flicker.queued <=> programming_mode)

\* Programming mode is on and the flicker has fired and re-armed itself.
C2_Witness ==
    /\ halt = "run" /\ programming_mode /\ Flicker.queued
    /\ Flicker.left = PROGRAMMING_MODE_INDICATOR_FLASHING_PERIOD_MS \div 2
    /\ led = LED_ON

\* C3: whenever reset_hold_cb calls oc_reset_device or
\* PlatformEraseJoinerCredentials, the programming-mode flag is false and the
\* flicker tasklet is not queued.
C3_NoResetInProgrammingMode ==
    \A i \in Calls("oc_reset_device") \cup Calls("PlatformEraseJoinerCredentials") :
        ~trace[i].arg.pm /\ ~trace[i].arg.flicker

\* C4: a pass of the loop in which PlatformCanSleep is false does not suspend
\* the device (and makes no other call), whatever is queued and whatever
\* oc_main_poll returned.
C4_NoSuspendUnlessPlatformCanSleep ==
    \A i \in Calls("PlatformCanSleep") :
        ~trace[i].arg => Suspends = {} /\ Len(trace) = 1

\* PlatformCanSleep was false in a pass that would have suspended the device:
\* the data poll is the only tasklet queued and is due later than the
\* threshold, programming mode is off, the device is attached.
C4_Witness ==
    /\ trace = <<[op |-> "PlatformCanSleep", arg |-> FALSE]>>
    /\ Poll.queued /\ Poll.left > MIN_USEFUL_SLEEP_MS
    /\ ~Flicker.queued /\ ~Feedback.queued
    /\ ~programming_mode /\ role = "child"

\* C5: every suspend is asked for the smaller of the time to the nearest
\* queued tasklet and the next-application-event bound, and when the device
\* is awake again no queued tasklet is overdue.
C5_SleepDuration ==
    \A i \in Suspends :
        /\ trace[i].arg.toNextTasklet # {}
        /\ trace[i].arg.timeout =
               Min(Least(trace[i].arg.toNextTasklet), trace[i].arg.nextAppEvent)
        /\ \A n \in Tasklets : tasklets[n].queued => tasklets[n].left >= 0

\* A suspend cut short by the application event: a tasklet is due later.
C5_Witness ==
    \E i \in Suspends :
        /\ trace[i].arg.timeout = trace[i].arg.nextAppEvent
        /\ trace[i].arg.timeout < Least(trace[i].arg.toNextTasklet)

\* C6: whenever DVBD_DevboardSleep is called the programming-mode flag is
\* false.
C6_NoSuspendInProgrammingMode ==
    \A i \in Suspends : ~trace[i].arg.pm

\* sleep_if_possible ran with programming mode on and the platform able to
\* sleep, and returned without a suspend.
C6_Witness ==
    /\ programming_mode /\ halt = "run"
    /\ trace = <<[op |-> "PlatformCanSleep", arg |-> TRUE]>>

\* C7 as claimed: every suspend happens SED_MIN_AWAKE_TIME or more after the
\* last wake, whatever the Thread role.
C7_MinAwakeWhateverRole ==
    \A i \in Suspends : trace[i].arg.awake >= SED_MIN_AWAKE_TIME

\* C7 as amended: every suspend happens SED_MIN_AWAKE_TIME or more after the
\* last wake, or with a Thread role other than detached.
C7_MinAwakeOrAttached ==
    \A i \in Suspends :
        \/ trace[i].arg.awake >= SED_MIN_AWAKE_TIME
        \/ trace[i].arg.role # "detached"

\* A detached device is suspended, the minimum awake time having passed;
\* the data poll was armed by an earlier pass.
C7_Witness ==
    \E i \in Suspends :
        /\ trace[i].arg.role = "detached"
        /\ trace[i].arg.awake >= SED_MIN_AWAKE_TIME
        /\ i = 2

\* C8: at every suspend the nearest queued tasklet and the next application
\* event are both due later than MIN_USEFUL_SLEEP_MS (100 ms).
C8_SleepWorthIt ==
    \A i \in Suspends :
        /\ \A d \in trace[i].arg.toNextTasklet : d > MIN_USEFUL_SLEEP_MS
        /\ trace[i].arg.nextAppEvent > MIN_USEFUL_SLEEP_MS

\* A suspend with an application event pending, later than the threshold.
C8_Witness ==
    \E i \in Suspends :
        /\ trace[i].arg.nextAppEvent < NO_APP_EVENT
        /\ Feedback.queued

\* C9: at every suspend the data-poll tasklet g_sed_poll_tasklet is queued.
C9_PollQueuedAcrossSleep ==
    \A i \in Suspends : trace[i].arg.poll

\* A suspend in the call of hardware_sleep that scheduled the data poll.
C9_Witness ==
    /\ Len(trace) >= 3
    /\ trace[2] = [op |-> "TASKLET_ScheduleDelta",
                    arg |-> <<"g_sed_poll_tasklet", SED_POLL_PERIOD, NULL>>]
    /\ trace[3].op = "DVBD_DevboardSleep"

\* C10 as claimed: with no button pressed, programming mode off and the
\* platform letting the device sleep again and again, the device is
\* eventually suspended after boot.
C10_EventuallySuspended == <>Suspended

\* C10 as amended: if moreover a join attempt succeeds, so that the poll loop
\* is entered, the device is eventually suspended, from every pass of the
\* poll loop on.
C10_SuspendedOnceJoined == (pc = "cascoda_io_handler") ~> Suspended

\* The device is suspended in the poll loop.
C10_Witness == Suspended /\ pc = "cascoda_io_handler" /\ events = 0

\* C11: after a hold event has been handled in THREAD_RESET (the join
\* credentials are erased), the device eventually restarts through
\* BSP_SystemReset, whatever requests arrive later.
C11_LinkResetRestarts ==
    (trace # <<>> /\ trace[1] = [op |-> "reset_hold_cb", arg |-> THREAD_RESET])
        ~> (halt = "reset")

\* The calls of reset_done_feedback that take the final branch (count has
\* reached RESET_INDICATOR_FLICKER_COUNT) and return.
FinalIterations ==
    {i \in Calls("reset_done_feedback") :
        /\ trace[i].arg.count >= RESET_INDICATOR_FLICKER_COUNT
        /\ halt # "fault"}

\* C12: the final iteration of reset_done_feedback sets the indicator LED
\* off, and the LED is off when the step that ran it ends, whatever the LED
\* was before and whatever the reset type.
C12_FeedbackEndsLedOff ==
    \A i \in FinalIterations :
        /\ i < Len(trace)
        /\ trace[i + 1] = [op |-> "DVBD_SetLED", arg |-> LED_OFF]
        /\ led = LED_OFF

\* A final iteration that found the LED on, after a link reset: the device
\* restarts with the LED off.
C12_Witness ==
    \E i \in FinalIterations :
        /\ trace[i].arg.led = LED_ON
        /\ trace[i].arg.context = "state_snapshot"
        /\ state_snapshot = THREAD_RESET
        /\ halt = "reset"

\* Half the flicker period of the reset the last hold event performed.
HalfPeriod ==
    IF state_snapshot = KNX_RESET
    THEN RESET_KNX_INDICATOR_FLICKER_PERIOD_MS \div 2
    ELSE RESET_THREAD_INDICATOR_FLICKER_PERIOD_MS \div 2

\* C13: a feedback sequence started by a hold event starts with the
\* iteration counter at 0; while the tasklet the hold scheduled is pending,
\* reset_done_feedback is run by that tasklet only; and each of its
\* iterations 0 .. 4 toggles the LED and re-arms the tasklet for half the
\* period of the reset performed (150 ms for KNX_RESET, 300 ms for
\* THREAD_RESET): five toggles, half a period apart, before the final
\* iteration.
C13_FiveTogglesHalfPeriodApart ==
    [][/\ (trace' # <<>> /\ trace'[1].op = "reset_hold_cb"
            /\ trace'[1].arg # IGNORE_FURTHER_ACTION) => count' = 0
       /\ \A i \in DOMAIN trace' :
             trace'[i].op = "reset_done_feedback" =>
                /\ (Feedback.queued /\ Feedback.ctx = "state_snapshot") =>
                       trace'[i].arg.context = "state_snapshot"
                /\ (/\ trace'[i].arg.context = "state_snapshot"
                    /\ trace'[i].arg.count < RESET_INDICATOR_FLICKER_COUNT) =>
                       /\ i + 2 <= Len(trace')
                       /\ trace'[i + 1] = [op |-> "DVBD_SetLED",
                                           arg |-> Not(trace'[i].arg.led)]
                       /\ trace'[i + 2] = [op |-> "TASKLET_ScheduleDelta",
                                           arg |-> <<"g_reset_done_indicator",
                                                     HalfPeriod', "state_snapshot">>]
      ]_vars

\* What is seen of programming mode: the flag, the flicker tasklet and the
\* link mode.
Observable(s) ==
    [programming_mode |-> s.programming_mode,
     flicker |-> s.tasklets["g_programming_mode_handler"],
     rxOnWhenIdle |-> s.rxOnWhenIdle]

\* C14: from a state with programming mode inactive, enter; exit; enter
\* leaves the same observable state as one enter (flag true, flicker
\* tasklet queued); and a short press enters programming mode when it is
\* inactive and exits it when it is active.
C14_ToggleIsItsOwnInverse ==
    /\ ~programming_mode =>
          /\ Observable(enter_programming_mode(exit_programming_mode(
                  enter_programming_mode(St))))
                = Observable(enter_programming_mode(St))
          /\ Observable(enter_programming_mode(St)).programming_mode
          /\ Observable(enter_programming_mode(St)).flicker.queued
    /\ LET pressed == prog_mode_short_press_cb(St)
       IN /\ pressed.programming_mode = ~programming_mode
          /\ TASKLET_IsQueued(pressed, "g_programming_mode_handler") = ~programming_mode
          /\ Observable(pressed) =
                Observable(IF programming_mode THEN exit_programming_mode(St)
                           ELSE enter_programming_mode(St))

\* Three short presses and nothing else: programming mode is active.
C14_Witness ==
    /\ events = 3
    /\ trace # <<>> /\ trace[1].op = "prog_mode_short_press_cb"
    /\ programming_mode /\ Flicker.queued /\ rxOnWhenIdle
    /\ g_reset_state = KNX_RESET /\ count = 0 /\ null_word = Unread

Published(tr) == {i \in DOMAIN tr : tr[i].op = "knx_publish_service"}

\* A request to enter while active or to exit while inactive.
RedundantModeRequest ==
    /\ pc = "oc_main_poll"
    /\ trace' # <<>>
    /\ \/ trace'[1] = [op |-> "prog_mode_cb", arg |-> programming_mode]
       \/ trace'[1].op = "restart_cb" /\ ~programming_mode

RedundantReset ==
    /\ pc = "oc_main_poll"
    /\ trace' # <<>>
    /\ trace'[1].op = "reset_cb" /\ ~programming_mode

\* C15: a request to enter programming mode while it is active, or to exit
\* it while it is inactive (programming_mode_embedded, restart_cb,
\* reset_embedded), changes neither the flag, the flicker tasklet, the LED
\* nor the link mode and does not publish the discovery record again.  (In
\* reset_embedded the LED is left to the feedback it shows.)
C15_EnterExitIdempotent ==
    [][/\ RedundantModeRequest =>
            /\ UNCHANGED <<programming_mode, led, rxOnWhenIdle>>
            /\ Flicker' = Flicker
            /\ Published(trace') = {}
       /\ RedundantReset =>
            /\ UNCHANGED <<programming_mode, rxOnWhenIdle>>
            /\ Flicker' = Flicker
            /\ Published(trace') = {}
      ]_vars

\* The flicker tasklet fired in the step that led to this state.
FlickerFired ==
    \E i \in DOMAIN trace :
        trace[i] = [op |-> "TASKLET_ScheduleDelta",
                    arg |-> <<"g_programming_mode_handler",
                              PROGRAMMING_MODE_INDICATOR_FLASHING_PERIOD_MS \div 2,
                              NULL>>]

\* C16: when exit_programming_mode returns, the flag is false, the flicker
\* tasklet is not queued, the LED is off and the discovery record has been
\* published once, whatever the state it was called in; and the flicker
\* tasklet fires only with programming mode active.
C16_ExitIsSynchronous ==
    /\ LET exited == exit_programming_mode(St)
       IN /\ ~exited.programming_mode
          /\ ~TASKLET_IsQueued(exited, "g_programming_mode_handler")
          /\ exited.led = LED_OFF
          /\ Cardinality(Published(exited.trace)) = 1
          /\ exited.trace[Len(exited.trace)] =
                [op |-> "knx_publish_service", arg |-> FALSE]
    /\ FlickerFired => programming_mode

\* A short press has ended programming mode.
C16_Witness ==
    /\ trace = <<[op |-> "prog_mode_short_press_cb", arg |-> 0],
                 [op |-> "DVBD_SetLED", arg |-> LED_OFF],
                 [op |-> "knx_publish_service", arg |-> FALSE]>>
    /\ ~programming_mode /\ ~Flicker.queued /\ led = LED_OFF /\ ~rxOnWhenIdle

Rearmed ==
    [op |-> "TASKLET_ScheduleDelta",
     arg |-> <<"g_programming_mode_handler",
               PROGRAMMING_MODE_INDICATOR_FLASHING_PERIOD_MS \div 2, NULL>>]

\* A pass of the scheduler with the flicker tasklet due, which the device
\* survives.
FlickerDue ==
    /\ pc = "cascoda_io_handler" /\ pc' = "hardware_poll"
    /\ Flicker.queued /\ Flicker.left <= 0
    /\ halt' = "run"

\* A step that enters programming mode queues the flicker tasklet for the
\* next tick and publishes the discovery record once, with pm true.
EnterStep ==
    (~programming_mode /\ programming_mode') =>
        /\ Flicker' = [queued |-> TRUE, left |-> SCHEDULE_NOW, ctx |-> NULL]
        /\ Cardinality(Published(trace')) = 1
        /\ \A i \in Published(trace') : trace'[i].arg = TRUE

\* A firing of the flicker tasklet toggles the LED and re-arms the tasklet.
FlickerStep ==
    FlickerDue =>
        /\ programming_mode /\ programming_mode'
        /\ Flicker' = [queued |-> TRUE,
                       left |-> PROGRAMMING_MODE_INDICATOR_FLASHING_PERIOD_MS \div 2,
                       ctx |-> NULL]
        /\ \E i \in DOMAIN trace' :
              /\ i > 1
              /\ trace'[i] = Rearmed
              /\ trace'[i - 1].op = "DVBD_SetLED"
        /\ (Len(trace') = 2) => (led' = Not(led))

\* C17: a step that enters programming mode sets the flag, publishes the
\* discovery record once (with pm true) and queues the flicker tasklet for
\* the next tick; every firing of the flicker tasklet toggles the LED and
\* re-arms the tasklet for half the flashing period (500 ms); and as long as
\* programming mode stays active the tasklet keeps firing.
C17_EnterStartsEndlessFlicker ==
    /\ [][EnterStep /\ FlickerStep]_vars
    /\ []<>(~programming_mode \/ halt # "run" \/ FlickerFired)

\* The flicker has fired with the LED on and turned it off: its second
\* firing at least.
C17_Witness ==
    /\ programming_mode /\ halt = "run"
    /\ trace = <<[op |-> "DVBD_SetLED", arg |-> LED_OFF], Rearmed>>
    /\ Flicker.left = PROGRAMMING_MODE_INDICATOR_FLASHING_PERIOD_MS \div 2


\* C18 (as amended): the long-press callback that re-arms the reset sequence
\* and the hold callback that advances it are registered for the reset
\* button with the same threshold, RESET_HOLD_AND_LONG_PRESS_THRESHOLD_MS.
C18_ThresholdsEqual ==
    /\ reset_button.hold.callback = "reset_hold_cb"
    /\ reset_button.long_press.callback = "reset_long_press_cb"
    /\ reset_button.hold.threshold = RESET_HOLD_AND_LONG_PRESS_THRESHOLD_MS
    /\ reset_button.long_press.threshold = reset_button.hold.threshold

\* C18 as stated: the long-press threshold is strictly longer than the hold
\* threshold.
C18_LongPressThresholdLonger ==
    reset_button.long_press.threshold > reset_button.hold.threshold

\* A long press of the reset button re-armed a sequence that had advanced.
C18_Witness ==
    /\ trace # <<>>
    /\ trace[1].op = reset_button.long_press.callback
    /\ g_reset_state = KNX_RESET
    /\ credentials = FALSE


\* The result of the join attempt made in a step, if any.
Attempted(tr) == {tr[i].arg : i \in {j \in DOMAIN tr : tr[j].op = "PlatformTryJoin"}}
Unrecoverable == {"OT_ERROR_SECURITY", "OT_ERROR_INVALID_ARGS"}

\* C20 (as amended): the join loop makes an attempt exactly on the passes that
\* find joinCooldownTimer at 30, every other pass adding one to it after a
\* 200 ms wait; it is left exactly by an attempt that reports OT_ERROR_NONE or
\* OT_ERROR_ALREADY, and an attempt that reports anything else, an
\* unrecoverable error included, starts the count again inside the loop.
C20_JoinLoopEndsOnlyOnSuccess ==
    [][pc = "join" =>
         /\ (Attempted(trace') # {}) <=> (joinCooldownTimer = JOIN_COOLDOWN)
         /\ Attempted(trace') = {} => /\ joinCooldownTimer' = joinCooldownTimer + 1
                                      /\ pc' = "join"
         /\ (pc' # "join") <=> (\E otErr \in Attempted(trace') :
                                   otErr \in {"OT_ERROR_NONE", "OT_ERROR_ALREADY"})
         /\ \A otErr \in Attempted(trace') \cap Unrecoverable :
               pc' = "join" /\ joinCooldownTimer' = 1]_vars

\* C20 as stated: an attempt that reports an unrecoverable error ends the loop.
C20_UnrecoverableErrorEndsLoop ==
    [][(pc = "join" /\ Attempted(trace') \cap Unrecoverable # {}) => pc' # "join"]_vars

\* An attempt has just failed for good and the loop goes on counting.
C20_Witness ==
    /\ pc = "join"
    /\ joinCooldownTimer = 1
    /\ Attempted(trace) = {"OT_ERROR_SECURITY"}


\* A tasklet callback ran in the step that made these calls.
TaskletRan(tr) ==
    \E i \in DOMAIN tr :
        \/ tr[i].op = "otLinkSendDataRequest"
        \/ /\ tr[i].op = "TASKLET_ScheduleDelta"
           /\ tr[i].arg = <<"g_programming_mode_handler",
                            PROGRAMMING_MODE_INDICATOR_FLASHING_PERIOD_MS \div 2, NULL>>
        \/ tr[i].op = "reset_done_feedback" /\ tr[1].op # "reset_cb"

\* A button callback ran in the step that made these calls.
ButtonRan(tr) ==
    /\ tr # <<>>
    /\ tr[1].op \in {"prog_mode_short_press_cb", "reset_hold_cb", "reset_long_press_cb"}

Due == {n \in Tasklets : tasklets[n].queued /\ tasklets[n].left <= 0}

\* The statements of one iteration of the poll loop, in order.
LoopOrder ==
    /\ pc = "cascoda_io_handler" => pc' \in {"cascoda_io_handler", "hardware_poll"}
    /\ pc = "hardware_poll" => pc' = "otTaskletsProcess"
    /\ pc = "otTaskletsProcess" => pc' = "oc_main_poll"
    /\ pc = "oc_main_poll" => pc' = "sleep_if_possible"
    /\ pc = "sleep_if_possible" => pc' = "cascoda_io_handler"

Ran(n, tr) ==
    \E i \in DOMAIN tr :
        IF n = "g_sed_poll_tasklet" THEN tr[i].op = "otLinkSendDataRequest"
        ELSE IF n = "g_programming_mode_handler"
        THEN /\ tr[i].op = "TASKLET_ScheduleDelta"
             /\ tr[i].arg = <<n, PROGRAMMING_MODE_INDICATOR_FLASHING_PERIOD_MS \div 2, NULL>>
        ELSE tr[i].op = "reset_done_feedback" /\ tr[1].op # "reset_cb"

\* The delay of the last TASKLET_ScheduleDelta on n in these calls, if any.
Scheduled(n, tr) ==
    LET on == {i \in DOMAIN tr : tr[i].op = "TASKLET_ScheduleDelta" /\ tr[i].arg[1] = n}
    IN {tr[i].arg[2] : i \in {j \in on : \A k \in on : k <= j}}

\* A step in which the scheduler is run (cascoda_io_handler).
SchedulerTick == pc = "join" \/ (pc = "cascoda_io_handler" /\ pc' = "hardware_poll")

\* C22: a tasklet's callback is not run before the delay it was scheduled
\* with has passed (left counts that delay down as time passes), and is run
\* by the first scheduler tick at or after that moment (the device does not
\* sleep past it); a tasklet scheduled with SCHEDULE_NOW is due at once, so
\* the next tick runs it.
C22_FiresAtFirstTickAfterDelay ==
    [][\A n \in Tasklets :
          /\ Ran(n, trace') => /\ SchedulerTick
                               /\ tasklets[n].queued
                               /\ tasklets[n].left <= 0
          /\ (SchedulerTick /\ n \in Due /\ halt' = "run") => Ran(n, trace')
          /\ (~SchedulerTick /\ halt' = "run") =>
                \A d \in Scheduled(n, trace') :
                    /\ tasklets'[n].queued
                    /\ IF \E i \in DOMAIN trace' : trace'[i].op = "DVBD_DevboardSleep"
                       THEN tasklets'[n].left \in 0..d
                       ELSE tasklets'[n].left = d
                    /\ d = SCHEDULE_NOW => pc' # pc
          /\ (tasklets[n].queued /\ tasklets[n].left > 0 /\ tasklets'[n].queued
                /\ Scheduled(n, trace') = {}) => tasklets'[n].left >= 0 \/ pc = "join"
      ]_vars

\* The feedback scheduled with SCHEDULE_NOW by a hold was run by the next tick.
C22_Witness ==
    /\ pc = "hardware_poll"
    /\ Calls("reset_done_feedback") # {}
    /\ count = 1
    /\ Feedback.queued
    /\ Feedback.left = RESET_KNX_INDICATOR_FLICKER_PERIOD_MS \div 2


\* The context of the last TASKLET_ScheduleDelta on n in these calls, if any.
ScheduledContext(n, tr) ==
    LET on == {i \in DOMAIN tr : tr[i].op = "TASKLET_ScheduleDelta" /\ tr[i].arg[1] = n}
    IN {tr[i].arg[3] : i \in {j \in on : \A k \in on : k <= j}}

\* The calls of reset_done_feedback the scheduler made in these calls.
FeedbackFirings(tr) ==
    {i \in DOMAIN tr : tr[i].op = "reset_done_feedback" /\ tr[1].op # "reset_cb"}

\* A button callback or a request schedules a tasklet that is still queued.
Reschedules(n) ==
    /\ ~SchedulerTick
    /\ tasklets[n].queued
    /\ Scheduled(n, trace') # {}

\* C23: scheduling a tasklet that is still queued replaces its entry, which
\* then has the new delay and the new context; the tick that finds it due runs
\* its callback once, with the context of that entry, and leaves it queued
\* only if the callback scheduled it again.  So a hold during a running
\* feedback sequence leaves the one entry of g_reset_done_indicator, due now
\* with &state_snapshot.
C23_RescheduleReplaces ==
    [][/\ \A n \in Tasklets :
             /\ (Reschedules(n) /\ halt' = "run" /\ Calls("DVBD_DevboardSleep")' = {}) =>
                   /\ tasklets'[n].queued
                   /\ {tasklets'[n].left} = Scheduled(n, trace')
                   /\ {tasklets'[n].ctx} = ScheduledContext(n, trace')
             /\ (SchedulerTick /\ Ran(n, trace') /\ halt' = "run") =>
                   /\ tasklets'[n].queued <=> Scheduled(n, trace') # {}
                   /\ tasklets'[n].queued => tasklets'[n].left > 0
       /\ SchedulerTick =>
             /\ Cardinality(FeedbackFirings(trace')) <= 1
             /\ \A i \in FeedbackFirings(trace') : trace'[i].arg.context = Feedback.ctx
       /\ (HoldEvent /\ Feedback.queued /\ g_reset_state # IGNORE_FURTHER_ACTION) =>
             Feedback' = [queued |-> TRUE, left |-> SCHEDULE_NOW, ctx |-> "state_snapshot"]
      ]_vars

\* A second hold has just replaced the entry of a running feedback sequence.
C23_Witness ==
    /\ pc = "otTaskletsProcess"
    /\ trace # <<>>
    /\ trace[1] = [op |-> "reset_hold_cb", arg |-> THREAD_RESET]
    /\ count \in 1..(RESET_INDICATOR_FLICKER_COUNT - 1)
    /\ Feedback = [queued |-> TRUE, left |-> SCHEDULE_NOW, ctx |-> "state_snapshot"]


\* Where in these calls the callback of tasklet n ran.
Firings(n, tr) ==
    {i \in DOMAIN tr :
        IF n = "g_sed_poll_tasklet" THEN tr[i].op = "otLinkSendDataRequest"
        ELSE IF n = "g_programming_mode_handler"
        THEN /\ tr[i].op = "TASKLET_ScheduleDelta"
             /\ tr[i].arg = <<n, PROGRAMMING_MODE_INDICATOR_FLASHING_PERIOD_MS \div 2, NULL>>
        ELSE tr[i].op = "reset_done_feedback" /\ tr[1].op # "reset_cb"}

\* Tasklet m is due before tasklet k (registration order when both are due
\* at the same time).
DueBefore(m, k) ==
    \/ tasklets[m].left < tasklets[k].left
    \/ tasklets[m].left = tasklets[k].left /\ Rank(m) < Rank(k)

\* C24: one scheduler tick runs every tasklet that is due, earliest due time
\* first, each once; a callback that schedules its own tasklet again
\* (programming_mode_handler, reset_done_feedback) finds it off the queue, so
\* that after the tick the tasklet is queued with the delay the callback gave
\* and has not run a second time.
C24_TickRunsDueInOrderOnce ==
    [][SchedulerTick =>
         \A n \in Tasklets :
            /\ Cardinality(Firings(n, trace')) <= 1
            /\ Firings(n, trace') # {} => n \in Due
            /\ (n \in Due /\ halt' = "run") => Firings(n, trace') # {}
            /\ \A k \in Tasklets : \A i \in Firings(n, trace') :
                  \A j \in Firings(k, trace') : DueBefore(n, k) => i < j
            /\ (Firings(n, trace') # {} /\ halt' = "run") =>
                  /\ tasklets'[n].queued <=> Scheduled(n, trace') # {}
                  /\ \A d \in Scheduled(n, trace') : d > 0 /\ tasklets'[n].left = d
            /\ (n = "g_programming_mode_handler" /\ Firings(n, trace') # {}) =>
                  Scheduled(n, trace') # {}]_vars

\* The feedback, overdue, ran before the flicker, due later, in one tick, and
\* both are queued again.
C24_Witness ==
    /\ pc = "hardware_poll"
    /\ Firings("g_reset_done_indicator", trace) # {}
    /\ Firings("g_programming_mode_handler", trace) # {}
    /\ \A i \in Firings("g_reset_done_indicator", trace),
          j \in Firings("g_programming_mode_handler", trace) : i < j
    /\ Flicker.queued
    /\ Feedback.queued


ResetStates == {KNX_RESET, THREAD_RESET, IGNORE_FURTHER_ACTION}

\* A hold is handled in state IGNORE_FURTHER_ACTION.
IgnoredHold ==
    /\ pc = "hardware_poll"
    /\ trace' # <<>>
    /\ trace'[1] = [op |-> "reset_hold_cb", arg |-> IGNORE_FURTHER_ACTION]

\* C26: a hold handled in state IGNORE_FURTHER_ACTION calls nothing (no reset,
\* no erase, no schedule, no LED, no publish) and changes nothing, the reset
\* state included; the reset state is always one of the three enumerators.
C26_IgnoredHoldIsNoOp ==
    /\ g_reset_state \in ResetStates
    /\ [][/\ g_reset_state' \in ResetStates
          /\ IgnoredHold =>
                /\ Len(trace') = 1
                /\ g_reset_state' = IGNORE_FURTHER_ACTION
                /\ UNCHANGED <<halt, programming_mode, rxOnWhenIdle, led, tasklets,
                               state_snapshot, count, reset_button, since_last_wake,
                               role, credentials, null_word>>]_vars

\* A hold has just been absorbed while a feedback sequence was pending.
C26_Witness ==
    /\ pc = "otTaskletsProcess"
    /\ trace = <<[op |-> "reset_hold_cb", arg |-> IGNORE_FURTHER_ACTION]>>
    /\ g_reset_state = IGNORE_FURTHER_ACTION
    /\ Feedback.queued


\* What one function of the setup has installed.
InstalledBy(f) == {r \in installed : r.by = f}
Installs(by, call, on, cb) == [by |-> by, call |-> call, on |-> on, cb |-> cb]

\* C27: when hardware_init() has returned, programming_mode_init has installed
\* nothing if its LED and its button are the same (and its tasklet, button
\* input, LED output and short-press callback otherwise), while reset_init's
\* tasklet and callbacks, the restart callback, the put callback, the poll
\* tasklet and the data point's LED and button are installed either way.
C27_AliasedPinsInstallNothing ==
    pc = "join" =>
      LET led_ == pins.PROGRAMMING_MODE_INDICATOR
          btn == pins.TRIGGER_FOR_PROGRAMMING_MODE_AND_RESET
          f == "programming_mode_init"
      IN /\ InstalledBy(f) =
              IF led_ = btn THEN {}
              ELSE {Installs(f, "TASKLET_Init", "g_programming_mode_handler",
                             "programming_mode_handler"),
                    Installs(f, "DVBD_RegisterButtonIRQInput", btn, NULL),
                    Installs(f, "DVBD_RegisterLEDOutput", led_, NULL),
                    Installs(f, "DVBD_SetButtonShortPressCallback", btn,
                             "prog_mode_short_press_cb")}
         /\ InstalledBy("reset_init") =
              {Installs("reset_init", "TASKLET_Init", "g_reset_done_indicator",
                        "reset_done_feedback"),
               Installs("reset_init", "DVBD_SetButtonHoldCallback", btn, "reset_hold_cb"),
               Installs("reset_init", "DVBD_SetButtonLongPressCallback", btn,
                        "reset_long_press_cb")}
         /\ InstalledBy("knx_specific_init") =
              {Installs("knx_specific_init", "oc_set_restart_cb", NULL, "restart_cb")}
         /\ InstalledBy("hardware_init") =
              {Installs("hardware_init", "app_set_put_cb", NULL, "put_callback"),
               Installs("hardware_init", "TASKLET_Init", "g_sed_poll_tasklet",
                        "sed_poll_handler"),
               Installs("hardware_init", "DVBD_RegisterLEDOutput", pins.LSAB_LED, NULL),
               Installs("hardware_init", "DVBD_RegisterButtonInput", pins.LSSB_BUTTON, NULL),
               Installs("hardware_init", "DVBD_SetButtonShortPressCallback",
                        pins.LSSB_BUTTON, "lssb_button_pressed")}

\* hardware_init() has returned on a board where the indicator is the trigger.
C27_Witness ==
    /\ pc = "join"
    /\ pins.PROGRAMMING_MODE_INDICATOR = pins.TRIGGER_FOR_PROGRAMMING_MODE_AND_RESET
    /\ InstalledBy("reset_init") # {}
    /\ InstalledBy("programming_mode_init") = {}


\* The calls of put_callback in the last step.
PutCallbacks == {i \in DOMAIN trace : trace[i].op = "put_callback"}
LedWrites == {i \in DOMAIN trace : trace[i].op = "DVBD_SetLED" /\ trace[i].arg[1] = "LSAB_LED"}

UrlQueries == {i \in DOMAIN trace : trace[i].op = "app_is_url_in_use"}
InTable(url) == \E i \in DOMAIN group_object_table : group_object_table[i] = url

\* C29: app_is_url_in_use(url) returns true if and only if url is the url of
\* an entry of the group object table.
C29_TrueIffUrlInTable ==
    \A i \in UrlQueries : trace[i].arg[2] <=> InTable(trace[i].arg[1])

\* What the code does instead: every call returns false.
AppIsUrlInUseAlwaysFalse == \A i \in UrlQueries : ~trace[i].arg[2]

\* C30: the reset state changes only in a hold event, which moves it forward
\* by exactly one state (and leaves it alone at IGNORE_FURTHER_ACTION), and in
\* a long-press event, the only step that moves it back to KNX_RESET; every
\* other step (programming mode entered or left, reset_embedded, restart_cb,
\* the tasklets, the sleep path) leaves it unchanged.
C30_ResetStateWrittenOnlyByButton ==
    [][/\ g_reset_state' # g_reset_state =>
             \/ HoldEvent /\ g_reset_state' = g_reset_state + 1
             \/ LongPressEvent /\ g_reset_state' = KNX_RESET
       /\ (HoldEvent /\ g_reset_state # IGNORE_FURTHER_ACTION) =>
             g_reset_state' = g_reset_state + 1
       /\ (g_reset_state' = KNX_RESET /\ g_reset_state # KNX_RESET) => LongPressEvent
       /\ ~(HoldEvent \/ LongPressEvent) => g_reset_state' = g_reset_state]_vars

\* restart_cb has run, and left programming mode, while the reset state was
\* past KNX_RESET.
C30_Witness ==
    /\ trace # <<>>
    /\ trace[1].op = "restart_cb"
    /\ Len(trace) > 1
    /\ g_reset_state = THREAD_RESET

\* C31: the time of the last wake is taken exactly when the device has been
\* suspended and has resumed: a step that calls DVBD_DevboardSleep ends with
\* the wake time being now, after hardware_reinitialise() was called on the
\* wake; a pass of sleep_if_possible that does not suspend the device leaves
\* the wake time as it was, and no other step moves it forward.
C31_WakeTimeTakenOnlyOnWake ==
    [][/\ Suspends' # {} =>
             /\ since_last_wake' = 0
             /\ \A i \in Suspends' :
                   /\ i + 1 \in DOMAIN trace'
                   /\ trace'[i + 1].op = "hardware_reinitialise"
       /\ (pc = "sleep_if_possible" /\ Suspends' = {}) =>
             /\ since_last_wake' = since_last_wake
             /\ Calls("hardware_reinitialise")' = {}
       /\ since_last_wake' < since_last_wake => Suspends' # {}]_vars

\* hardware_sleep has scheduled the data poll and declined to suspend a
\* device that had been awake for a while.
C31_Witness ==
    /\ pc = "cascoda_io_handler"
    /\ trace # <<>>
    /\ trace[1] = [op |-> "PlatformCanSleep", arg |-> TRUE]
    /\ Calls("TASKLET_ScheduleDelta") # {}
    /\ Suspends = {}
    /\ since_last_wake > 0
    /\ halt = "run"

\* C32: once main() has left the join loop, the link mode is rx-on-when-idle
\* if and only if the device is in programming mode, whatever enter, exit,
\* reset and restart operations have run.
C32_LinkModeFollowsProgrammingMode ==
    pc # "join" => (rxOnWhenIdle <=> programming_mode)

\* Programming mode has been entered on a request, after earlier events.
C32_Witness ==
    /\ pc # "join"
    /\ events >= 2
    /\ trace # <<>>
    /\ trace[1] = [op |-> "prog_mode_cb", arg |-> TRUE]
    /\ programming_mode
    /\ rxOnWhenIdle

\* The data poll has fired in the last step.
PollFired == Firings("g_sed_poll_tasklet", trace) # {}

\* C33: a pass of sleep_if_possible that finds the data poll queued does not
\* schedule it again: the poll stays queued and the time left to it is what
\* it was, less the time the device was suspended, and never negative. The
\* poll is scheduled with SED_POLL_PERIOD only when it is not queued, no step
\* moves a queued poll further away, and a queued poll does fire.
C33_QueuedPollNotPostponed ==
    /\ [][/\ (pc = "sleep_if_possible" /\ Poll.queued) =>
                /\ Poll'.queued
                /\ Calls("TASKLET_ScheduleDelta")' = {}
                /\ Poll'.left <= Poll.left
                /\ Suspends' = {} => Poll'.left = Poll.left
          /\ (pc = "sleep_if_possible" /\ ~Poll.queued /\ Poll'.queued) =>
                /\ Scheduled("g_sed_poll_tasklet", trace') = {SED_POLL_PERIOD}
                /\ Poll'.left <= SED_POLL_PERIOD
          /\ (Poll.queued /\ Poll'.queued /\ ~PollFired') =>
                Poll'.left <= Poll.left]_vars
    /\ [](Poll.queued => Poll.left \in 0..SED_POLL_PERIOD)
    /\ (Poll.queued ~> PollFired)

\* hardware_sleep has been called with the data poll queued and its time
\* partly gone, and has not suspended the device.
C33_Witness ==
    /\ pc = "cascoda_io_handler"
    /\ trace # <<>>
    /\ trace[1] = [op |-> "PlatformCanSleep", arg |-> TRUE]
    /\ ~programming_mode
    /\ Len(trace) = 1
    /\ Poll.queued
    /\ Poll.left < SED_POLL_PERIOD

\* C34: every call of reset_done_feedback has a context other than NULL, which
\* points to KNX_RESET or THREAD_RESET, and every call that is not a final
\* iteration schedules g_reset_done_indicator again.
C34_FeedbackContextValid ==
    \A i \in Calls("reset_done_feedback") :
        /\ trace[i].arg.context # NULL
        /\ state_snapshot \in {KNX_RESET, THREAD_RESET}
        /\ trace[i].arg.count < RESET_INDICATOR_FLICKER_COUNT =>
              \E j \in Calls("TASKLET_ScheduleDelta") :
                  j > i /\ trace[j].arg[1] = "g_reset_done_indicator"

\* C35: whenever g_reset_done_indicator is not queued (between two steps no
\* callback is executing), the iteration counter of reset_done_feedback is 0.
C35_CountZeroWhenIdle == ~Feedback.queued => count = 0

\* The same as long as reset_embedded has not been called.
CountZeroWhenIdleWithoutNetworkReset ==
    null_word = Unread => (~Feedback.queued => count = 0)

\* C36: g_reset_done_indicator and g_programming_mode_handler, which both
\* drive the LED PROGRAMMING_MODE_INDICATOR, are never queued at the same time.
C36_LedHasOneOwner == ~(Feedback.queued /\ Flicker.queued)

\* BSP_SystemReset was called in the last step only by a final iteration of
\* reset_done_feedback, with the joiner credentials erased.
RestartOnlyAfterErase ==
    \A j \in Calls("BSP_SystemReset") :
        /\ ~credentials
        /\ \E i \in Calls("reset_done_feedback") :
              /\ i < j
              /\ trace[i].arg.count >= RESET_INDICATOR_FLICKER_COUNT

\* C37: reset_done_feedback calls BSP_SystemReset only on a final iteration
\* and only when the joiner credentials have been erased since boot: a
\* feedback sequence that follows a KNX reset alone does not restart the
\* device.
C37_RestartOnlyForLinkReset == RestartOnlyAfterErase

\* The same as long as reset_embedded has not been called.
RestartOnlyForLinkResetWithoutNetworkReset == null_word = Unread => RestartOnlyAfterErase

\* C38: the device is not suspended before joining has completed: main()
\* starts in the join loop, which never calls DVBD_DevboardSleep, makes a join
\* attempt only on a pass that finds joinCooldownTimer at 30, and is left only
\* by an attempt that reports OT_ERROR_NONE or OT_ERROR_ALREADY; the device is
\* suspended only from sleep_if_possible in the poll loop, which is never left
\* for the join loop again.
C38_NoSuspendBeforeJoined ==
    /\ pc = "join"
    /\ [][/\ pc = "join" =>
                /\ Suspends' = {}
                /\ Attempted(trace') # {} => joinCooldownTimer = JOIN_COOLDOWN
                /\ pc' # "join" =>
                      Attempted(trace') \cap {"OT_ERROR_NONE", "OT_ERROR_ALREADY"} # {}
          /\ pc # "join" => pc' # "join" /\ Attempted(trace') = {}
          /\ Suspends' # {} => pc = "sleep_if_possible"]_vars

\* The device has been suspended, with the data poll as the only tasklet.
C38_Witness ==
    /\ pc = "cascoda_io_handler"
    /\ Suspends # {}
    /\ joinCooldownTimer = JOIN_COOLDOWN
    /\ events = 0
    /\ role = "detached"

ShortPressEvent ==
    pc = "hardware_poll" /\ trace' # <<>> /\ trace'[1].op = "prog_mode_short_press_cb"

ToNextTasklet ==
    Least({tasklets[n].left : n \in {m \in Tasklets : tasklets[m].queued}}
          \cup (IF Poll.queued THEN {} ELSE {SED_POLL_PERIOD}))

\* C40: sleep_if_possible takes a time to the next application event of 0, or
\* above 0x7FFFFFFF, as no bound (0x7FFFFFFF) and passes any other value on
\* unchanged: a suspend is asked for the smaller of that bound and the time
\* to the next tasklet, so a time of 0 gives no suspend of length 0, and
\* whenever everything else allows the suspend a time of 0 does not prevent
\* it.
C40_ZeroIsNoBound ==
    [][(trace' # <<>> /\ trace'[1].op = "sleep_if_possible") =>
         LET t == trace'[1].arg.timeToNextAppEvent
             bound == IF t.hi > 0 \/ (t.hi = 0 /\ t.lo = 0)
                      THEN 2147483647
                      ELSE t.lo
         IN /\ \A i \in Suspends' :
                  /\ trace'[i].arg.nextAppEvent = bound
                  /\ trace'[i].arg.timeout = Min(ToNextTasklet, bound)
                  /\ trace'[i].arg.timeout > 0
            /\ (/\ t = Clock(0, 0)
                /\ trace'[2] = [op |-> "PlatformCanSleep", arg |-> TRUE]
                /\ trace'[1].arg.dvbdCanSleep
                /\ ~programming_mode
                /\ ToNextTasklet > MIN_USEFUL_SLEEP_MS
                /\ (since_last_wake >= SED_MIN_AWAKE_TIME \/ role # "detached")) =>
                  Suspends' # {}]_vars

\* The device has been suspended in a call that was given the time 0.
C40_Witness ==
    /\ trace # <<>>
    /\ trace[1].op = "sleep_if_possible"
    /\ trace[1].arg.timeToNextAppEvent = Clock(0, 0)
    /\ Suspends # {}

====
